---- MODULE Spec2Model ----
(***************************************************************************)
(* Model of the RCY breakbeat slicer (src/src/python): the segment store   *)
(* of WavAudioProcessor, the playback session (model, background playback  *)
(* thread, audio device, controller poll timer) and the export bracketing. *)
(*                                                                         *)
(* Units.  The code passes positions around as float seconds and converts  *)
(* with int(t * sample_rate) and sample / sample_rate.  Here a time is an  *)
(* integer number of ticks, TicksPerSample ticks to one sample, so that    *)
(*   int(t * sample_rate)  is  t \div TicksPerSample   (truncation),       *)
(*   sample / sample_rate  is  sample * TicksPerSample (exact).            *)
(* The view's sub-tick thresholds (snap 0.025 s, marker gap 0.01 s and     *)
(* 0.1 s) are below one tick for the low sample rates modelled.            *)
(*                                                                         *)
(* Threads.  Handlers of the GUI thread (clicks, keys, the 100 ms poll     *)
(* timer) run to completion one after another on the Qt event loop and are *)
(* one action each.  The playback thread is one action per statement.      *)
(***************************************************************************)
EXTENDS Integers, Sequences, FiniteSets, TLC

\* ---- bounds of the model ----
MaxSamples == 3      \* longest buffer loaded (samples)
MaxSegs == 2         \* add_segment is offered while the list is shorter
MaxMeasures == 2     \* largest measure count typed into the view
MaxResolution == 2   \* largest measure resolution offered by the view
MaxThreads == 2      \* playback threads alive at once
MaxBpm == 3          \* largest source / target tempo
MaxRate == 2         \* largest sample rate (samples per second)

\* ---- scaled program constants ----
TicksPerSample == 2  \* time resolution: ticks per sample period
HopLength == 2       \* librosa hop length (frames_to_samples default)

None == -1           \* Python None (all real positions are >= 0)

MsPerSecond == 1000      \* apply_tail_fade: duration_ms / 1000
DefaultFadeMs == 10      \* process_segment_for_output: fade_duration_ms=10
SecondsPerMinute == 60   \* calculate_source_bpm: 60.0 * total_beats
BeatsPerMeasure == 4     \* calculate_source_bpm: beats_per_measure
DefaultMeasures == 4     \* calculate_source_bpm: measures fallback
BaseKey == 60            \* export_segments: pitch_keycenter={60 + i}

VARIABLES
    \* WavAudioProcessor
    data_len,             \* len(self.data_left) == len(self.data_right)
    filename,             \* self.filename: the file named, as a record of
                          \* what opening and reading it gives
    total_len,            \* self.total_time * self.sample_rate, the frame
                          \* count total_time was last computed from
    segments,             \* self.segments, list of sample indices
    is_playing,           \* self.is_playing
    playback_just_ended,  \* self.playback_just_ended
    \* RcyController
    num_measures,         \* self.num_measures
    playback_mode,        \* self.playback_mode
    is_playing_reverse,   \* self.is_playing_reverse
    current_segment,      \* self.current_segment, <<start, end>> in ticks
    current_slices,       \* self.current_slices, slice times set by the view
    start_marker_pos,     \* self.start_marker_pos (ticks)
    end_marker_pos,       \* self.end_marker_pos (ticks)
    \* playback threads and the sounddevice stream
    threads,              \* the live playback threads, oldest first:
                          \* [pc, blocked] (blocked: inside sd.wait())
    stream,               \* the thread whose stream the device is outputting
                          \* (its index in threads), 0 when the device is silent
    \* results and observation
    query,                \* last segment lookup: [pos, model, ctrl] or None
    exported,             \* boundary list export_segments iterated
    call,                 \* last observed call of a store or pipeline
                          \* function with its arguments and result
    source_bpm,           \* WavAudioProcessor.source_bpm, beats per minute as
                          \* << numerator, denominator >> in lowest terms
    preset_measures,      \* WavAudioProcessor.preset_info['measures']
    lastMain,             \* last playback operation of the GUI thread
    session,              \* "quiet" (a user play started, no input since),
                          \* "completed" (quiet, and the device has played a
                          \* buffer out with no replay begun since),
                          \* "stopped" (manual stop since), else "idle"
    played                \* last playback handed to a worker since the last
                          \* user play request: <<start, end, reverse>>

vars == << data_len, filename, total_len, segments, is_playing, playback_just_ended, num_measures,
           playback_mode, is_playing_reverse, current_segment, current_slices,
           start_marker_pos, end_marker_pos, threads, stream,
           query, exported, call, source_bpm, preset_measures, lastMain, session,
           played >>

playVars == << is_playing, playback_just_ended, playback_mode,
               is_playing_reverse, current_segment, threads,
               stream >>
obsVars == << lastMain, session, played >>

Slots == 1..MaxThreads
Modes == {"one-shot", "loop", "loop-reverse"}

\* ---- helpers ----
Min(a, b) == IF a < b THEN a ELSE b
Max(a, b) == IF a > b THEN a ELSE b
Abs(a) == IF a < 0 THEN -a ELSE a

\* self.total_time = len(data_left) / sample_rate, in ticks
TimeOfLen(n) == n * TicksPerSample
total_time == TimeOfLen(total_len)

\* int(time * self.sample_rate)
get_sample_at_time(t) == t \div TicksPerSample

\* sample / self.sample_rate
SampleToTime(s) == s * TicksPerSample

RECURSIVE InsertSorted(_, _)
InsertSorted(s, x) ==
    IF s = << >> THEN << x >>
    ELSE IF x < Head(s) THEN << x >> \o s
    ELSE << Head(s) >> \o InsertSorted(Tail(s), x)

\* list.sort()
RECURSIVE ListSort(_)
ListSort(s) == IF s = << >> THEN << >> ELSE InsertSorted(ListSort(Tail(s)), Head(s))

RECURSIVE GCD(_, _)
GCD(a, b) == IF b = 0 THEN a ELSE GCD(b, a % b)

RemoveAt(s, i) == SubSeq(s, 1, i - 1) \o SubSeq(s, i + 1, Len(s))

\* ---------------------------------------------------------------------
\* Segment store: pure parts of WavAudioProcessor
\* ---------------------------------------------------------------------

\* split_by_measures: the list it builds
SplitByMeasuresList(len, measures, resolution) ==
    LET samples_per_measure == len \div measures
        samples_per_slice == samples_per_measure \div resolution
    IN  [i \in 1..(measures * resolution - 1) |-> i * samples_per_slice]

\* librosa.frames_to_samples(onsets).tolist() of a sorted set of frames
FramesToSamples(frames) ==
    ListSort(CHOOSE s \in [1..Cardinality(frames) -> frames] :
                \A i, j \in 1..Cardinality(frames) : i # j => s[i] # s[j])

OnsetSamples(frames) ==
    LET f == FramesToSamples(frames)
    IN  [i \in 1..Len(f) |-> f[i] * HopLength]

\* mutant of add_segment: the new boundary is appended and the list not sorted
AddSegmentList_NoSort(segs, click_time) ==
    Append(segs, get_sample_at_time(click_time))

\* add_segment: append int(click_time * sample_rate), then sort
AddSegmentList(segs, click_time) ==
    ListSort(Append(segs, get_sample_at_time(click_time)))

\* mutant of remove_segment's search: the first boundary is always chosen
ClosestIndex_First(segs, click_sample) == 1

\* remove_segment: min(range(len), key=abs(segments[i] - click_sample))
\* is the first index at minimal distance
ClosestIndex(segs, click_sample) ==
    CHOOSE i \in 1..Len(segs) :
        /\ \A j \in 1..Len(segs) :
               Abs(segs[i] - click_sample) <= Abs(segs[j] - click_sample)
        /\ \A j \in 1..(i - 1) :
               Abs(segs[j] - click_sample) > Abs(segs[i] - click_sample)

\* mutant of remove_segment: every boundary is deleted
RemoveSegmentList_ClearsAll(segs, click_time) == << >>

RemoveSegmentList(segs, click_time) ==
    IF segs = << >> THEN segs
    ELSE RemoveAt(segs, ClosestIndex(segs, get_sample_at_time(click_time)))

\* WavAudioProcessor.get_segment_boundaries(click_time): <<start, end>> times
get_segment_boundaries(segs, len, click_time) ==
    LET click_sample == get_sample_at_time(click_time)
        greater == {i \in 1..Len(segs) : click_sample < segs[i]}
    IN  IF greater # {}
        THEN LET i == CHOOSE k \in greater : \A m \in greater : k <= m
             IN  IF i = 1 THEN << 0, SampleToTime(segs[i]) >>
                 ELSE << SampleToTime(segs[i - 1]), SampleToTime(segs[i]) >>
        ELSE IF segs # << >>
             THEN << SampleToTime(segs[Len(segs)]), SampleToTime(len) >>
             ELSE << 0, SampleToTime(len) >>

\* mutant of the controller's lookup: no special case for a click at or
\* before the first slice
ctrl_get_segment_boundaries_Strict(slices, total, click_time) ==
    IF slices = << >> THEN << 0, total >>
    ELSE LET greater == {i \in 1..Len(slices) : click_time < slices[i]}
         IN  IF greater # {}
             THEN LET i == CHOOSE k \in greater : \A m \in greater : k <= m
                  IN  IF i = 1 THEN << 0, slices[i] >>
                      ELSE << slices[i - 1], slices[i] >>
             ELSE << slices[Len(slices)], total >>

\* RcyController.get_segment_boundaries(click_time) over current_slices
ctrl_get_segment_boundaries(slices, total, click_time) ==
    IF slices = << >> THEN << 0, total >>
    ELSE IF click_time <= slices[1] THEN << 0, slices[1] >>
    ELSE IF click_time >= slices[Len(slices)] THEN << slices[Len(slices)], total >>
    ELSE LET greater == {i \in 1..Len(slices) : click_time < slices[i]}
         IN  IF greater # {}
             THEN LET i == CHOOSE k \in greater : \A m \in greater : k <= m
                  IN  IF i = 1 THEN << 0, slices[i] >>
                      ELSE << slices[i - 1], slices[i] >>
             ELSE << slices[Len(slices)], total >>

\* RcyView.update_slices: slice times handed to the controller
SliceTimes(segs) == [i \in 1..Len(segs) |-> SampleToTime(segs[i])]

\* RcyView.update_slices: the end marker it reports (moved to the end of the
\* buffer when it sits on the start marker)
UpdatedEndMarker(start_pos, end_pos, total) ==
    IF end_pos = start_pos THEN total ELSE end_pos

\* cut_audio: the clamped sample range, and the new length (0 = rejected)
CutLength(len, start_time, end_time) ==
    LET start_sample == Max(get_sample_at_time(start_time), 0)
        end_sample == Min(get_sample_at_time(end_time), len)
    IN  IF start_sample >= end_sample THEN 0 ELSE end_sample - start_sample

\* mutant of extract_segment's checks: start >= end is let through
ValidSampleRange_NoOrder(len, start_sample, end_sample) ==
    ~(start_sample < 0 \/ start_sample >= len \/ end_sample > len)

\* extract_segment, lines 26-32: the range passes both checks
ValidSampleRange(len, start_sample, end_sample) ==
    /\ ~(start_sample < 0 \/ start_sample >= len \/ end_sample > len)
    /\ ~(start_sample >= end_sample)

\* ExportUtils.export_segments, lines 68-88: the boundary list it iterates
ExportBracket(segs, len, start_pos, end_pos) ==
    LET fromMarkers == segs = << >> /\ start_pos # None /\ end_pos # None
        s0 == IF fromMarkers
              THEN << get_sample_at_time(start_pos), get_sample_at_time(end_pos) >>
              ELSE segs
        s1 == IF s0 = << >> THEN << 0, len >>
              ELSE IF s0[1] # 0 /\ (start_pos = None \/ start_pos > 0)
                   THEN << 0 >> \o s0
                   ELSE s0
    IN  IF s1[Len(s1)] # len /\ (end_pos = None \/ end_pos < TimeOfLen(len))
        THEN Append(s1, len)
        ELSE s1

\* parameter names of process_segment_for_output
PipelineParams ==
    {"data_left", "data_right", "start_sample", "end_sample", "sample_rate",
     "is_stereo", "reverse", "playback_tempo_enabled", "source_bpm",
     "target_bpm", "tail_fade_enabled", "fade_duration_ms", "fade_curve"}

\* keyword arguments export_segments adds to its thirteen positional ones
ExportKeywords == {"for_export", "resample_on_export"}

\* Python binds a call's keyword arguments to parameters of the callee; a
\* keyword that names no parameter raises TypeError before the body runs
BindsKeywords(keywords, params) == keywords \subseteq params

\* the call of process_segment_for_output made for one pair, and sf.write:
\* "written", or the exception raised
ExportOnePair(len, start, end) ==
    IF ~BindsKeywords(ExportKeywords, PipelineParams) THEN "TypeError"
    ELSE IF ~ValidSampleRange(len, start, end) THEN "ValueError"
    ELSE "written"

\* one written audio file and its SFZ region / MIDI note: i is the 1-based
\* position of the pair in the boundary list (enumerate index + 1)
ExportedFile(i, start, end) ==
    [name |-> i, start |-> start, end |-> end, key |-> BaseKey + (i - 1)]

\* export_segments, lines 93-151: the loop over consecutive pairs from pair
\* i on; tried lists the pairs handed to the pipeline, raised is the
\* exception that ended the loop ("none" when it ran to its end)
RECURSIVE ExportLoop(_, _, _, _)
ExportLoop(b, len, i, acc) ==
    IF i >= Len(b) THEN acc
    ELSE IF b[i] = b[i + 1] THEN ExportLoop(b, len, i + 1, acc)
    ELSE LET r == ExportOnePair(len, b[i], b[i + 1])
         IN  IF r # "written"
             THEN [acc EXCEPT !.tried = Append(@, i), !.raised = r]
             ELSE ExportLoop(b, len, i + 1,
                      [acc EXCEPT !.tried = Append(@, i),
                                  !.files = Append(@, ExportedFile(i, b[i], b[i + 1]))])

\* mutant of export_segments: the exception of the loop is caught and the
\* two sidecar files are written all the same
export_segments_CatchesError(segs, len, start_pos, end_pos) ==
    LET b == ExportBracket(segs, len, start_pos, end_pos)
        r == ExportLoop(b, len, 1, [files |-> << >>, tried |-> << >>, raised |-> "none"])
    IN  [bracket |-> b, files |-> r.files, tried |-> r.tried,
         sidecars |-> TRUE, raised |-> r.raised]

\* ExportUtils.export_segments: the boundary list iterated, the audio files
\* written, whether instrument.sfz and sequence.mid were written (lines
\* 161-169, after the loop) and the exception that reached the caller
export_segments(segs, len, start_pos, end_pos) ==
    LET b == ExportBracket(segs, len, start_pos, end_pos)
        r == ExportLoop(b, len, 1, [files |-> << >>, tried |-> << >>, raised |-> "none"])
    IN  [bracket |-> b, files |-> r.files, tried |-> r.tried,
         sidecars |-> r.raised = "none", raised |-> r.raised]

\* export_segments works on the list object returned by model.get_segments():
\* insert/append change the model's own list unless the list was empty and
\* a fresh list was built from the markers or from [0, len]
SegmentsAfterExport(segs, len, start_pos, end_pos) ==
    IF segs = << >> THEN segs ELSE ExportBracket(segs, len, start_pos, end_pos)

\* ---------------------------------------------------------------------
\* Observation: what the GUI thread did last (not program state).
\* lastMain.op is "play" (a user play request), "stop" or "other";
\* res is the result of WavAudioProcessor.play_segment; slot is the thread a
\* play started (for a stop: the thread started by the play right before
\* it), 0 once that thread has exited.
\* ---------------------------------------------------------------------
MainOp(op, res, slot) == [op |-> op, res |-> res, slot |-> slot]

NoPlay == << None, None, FALSE >>

NoQuery == [pos |-> None, model |-> << None, None >>, ctrl |-> << None, None >>]

\* a user play request started a playback and no user input came since
InSession == session \in {"quiet", "completed"}

\* a user input other than a play request or a stop
Touch ==
    /\ session' = IF InSession THEN "idle" ELSE session
    /\ UNCHANGED << lastMain, played >>

tempoVars == << source_bpm, preset_measures >>

fileVars == << filename, total_len >>

\* a file sf.SoundFile opens and sf.read reads, holding n frames
GoodFile(n) == [frames |-> n, opens |-> TRUE, reads |-> TRUE]

\* files whose load fails: sf.SoundFile raises, or the header is read and
\* sf.read in _generate_data raises
BadFiles ==
    {[frames |-> 0, opens |-> FALSE, reads |-> FALSE]}
        \cup {[frames |-> n, opens |-> TRUE, reads |-> FALSE] : n \in 1..MaxSamples}

\* calculate_source_bpm(measures): (60.0 * measures * 4) / self.total_time,
\* measures falling back to 4 when absent or not positive
SourceBpm(measures, total) ==
    LET m == IF measures = None \/ measures <= 0 THEN DefaultMeasures
             ELSE measures
        n == SecondsPerMinute * m * BeatsPerMeasure
    IN  << n \div GCD(n, total), total \div GCD(n, total) >>

\* the results of the last lookup / export are dropped by the next operation
NoExport == << >>

\* no call is being observed
NoCall == [fn |-> "none"]

\* ---------------------------------------------------------------------
\* Initial state: main() has built model, controller and view and has
\* called controller.update_view() once
\* ---------------------------------------------------------------------
Init ==
    /\ data_len \in 1..MaxSamples
    /\ filename = GoodFile(data_len)
    /\ total_len = data_len
    /\ segments = << >>
    /\ is_playing = FALSE
    /\ playback_just_ended = FALSE
    /\ num_measures \in 1..MaxMeasures
    /\ playback_mode = "one-shot"
    /\ is_playing_reverse = FALSE
    /\ current_segment = << None, None >>
    /\ current_slices = << >>
    /\ start_marker_pos = 0
    /\ end_marker_pos = total_time
    /\ threads = << >>
    /\ stream = 0
    /\ query = NoQuery
    /\ call = NoCall
    /\ preset_measures = num_measures
    /\ source_bpm = SourceBpm(preset_measures, total_time)
    /\ exported = NoExport
    /\ lastMain = MainOp("other", "none", 0)
    /\ session = "idle"
    /\ played = NoPlay

\* ---------------------------------------------------------------------
\* Segment store operations (controller handler + model method + the
\* view refresh the handler ends with)
\* ---------------------------------------------------------------------

\* RcyController.update_view -> RcyView.update_slices(model.get_segments())
UpdateSlices(segs, total) ==
    /\ current_slices' = SliceTimes(segs)
    /\ start_marker_pos' = start_marker_pos
    /\ end_marker_pos' = UpdatedEndMarker(start_marker_pos, end_marker_pos, total)

\* RcyView.clear_markers: markers back to the file boundaries
ClearMarkers(total) ==
    /\ start_marker_pos' = 0
    /\ end_marker_pos' = total

\* RcyController.load_audio_file -> WavAudioProcessor.set_filename (file
\* read); set_filename ends with calculate_source_bpm(measures=None)
LoadAudioFile(n) ==
    /\ data_len' = n
    /\ filename' = GoodFile(n)
    /\ total_len' = n
    /\ segments' = << >>
    /\ current_slices' = SliceTimes(<< >>)
    /\ ClearMarkers(TimeOfLen(n))
    /\ query' = NoQuery
    /\ source_bpm' = SourceBpm(preset_measures, TimeOfLen(n))
    /\ UNCHANGED preset_measures
    /\ call' = NoCall
    /\ Touch
    /\ exported' = NoExport
    /\ UNCHANGED num_measures
    /\ UNCHANGED playVars

\* RcyController.load_audio_file -> WavAudioProcessor.set_filename on a file
\* whose load fails: self.filename is assigned first; when the header opens,
\* sample_rate, channels and total_time are assigned inside the with block
\* before _generate_data raises; the except clause prints and re-raises, and
\* the controller's lines after set_filename are not reached
FailedLoad(file) ==
    /\ filename' = file
    /\ total_len' = IF file.opens THEN file.frames ELSE total_len
    /\ call' = [fn |-> "set_filename", file |-> file, raised |-> TRUE,
                before |-> [filename |-> filename, total_len |-> total_len,
                            data_len |-> data_len, segments |-> segments,
                            source_bpm |-> source_bpm]]
    /\ query' = NoQuery
    /\ exported' = NoExport
    /\ Touch
    /\ UNCHANGED << data_len, segments, num_measures, current_slices,
                    start_marker_pos, end_marker_pos >>
    /\ UNCHANGED tempoVars
    /\ UNCHANGED playVars

\* RcyController.load_preset -> WavAudioProcessor.load_preset (preset_info,
\* set_filename), num_measures taken from the preset, then
\* calculate_source_bpm(measures=self.num_measures)
LoadPreset(n, measures) ==
    /\ data_len' = n
    /\ filename' = GoodFile(n)
    /\ total_len' = n
    /\ segments' = << >>
    /\ current_slices' = SliceTimes(<< >>)
    /\ ClearMarkers(TimeOfLen(n))
    /\ query' = NoQuery
    /\ preset_measures' = measures
    /\ num_measures' = measures
    /\ source_bpm' = SourceBpm(measures, TimeOfLen(n))
    /\ call' = NoCall
    /\ Touch
    /\ exported' = NoExport
    /\ UNCHANGED playVars

\* RcyController.on_measures_changed
OnMeasuresChanged(n) ==
    /\ num_measures' = n
    /\ query' = NoQuery
    /\ UNCHANGED << tempoVars, fileVars >>
    /\ call' = NoCall
    /\ Touch
    /\ exported' = NoExport
    /\ UNCHANGED << data_len, segments, current_slices, start_marker_pos,
                    end_marker_pos >>
    /\ UNCHANGED playVars

\* RcyController.split_audio('measures') -> split_by_measures
SplitByMeasures(resolution) ==
    /\ segments' = SplitByMeasuresList(data_len, num_measures, resolution)
    /\ UpdateSlices(segments', total_time)
    /\ query' = NoQuery
    /\ UNCHANGED << tempoVars, fileVars >>
    /\ call' = NoCall
    /\ Touch
    /\ exported' = NoExport
    /\ UNCHANGED << data_len, num_measures >>
    /\ UNCHANGED playVars

\* RcyController.split_audio('transients') -> split_by_transients; the
\* onset detector (librosa) returns some increasing set of frame indices
SplitByTransients(frames) ==
    /\ segments' = OnsetSamples(frames)
    /\ UpdateSlices(segments', total_time)
    /\ query' = NoQuery
    /\ UNCHANGED << tempoVars, fileVars >>
    /\ call' = [fn |-> "split_by_transients", onsets |-> OnsetSamples(frames)]
    /\ Touch
    /\ exported' = NoExport
    /\ UNCHANGED << data_len, num_measures >>
    /\ UNCHANGED playVars

\* RcyController.add_segment -> WavAudioProcessor.add_segment
AddSegment(click_time) ==
    /\ Len(segments) < MaxSegs
    /\ segments' = AddSegmentList(segments, click_time)
    /\ UpdateSlices(segments', total_time)
    /\ query' = NoQuery
    /\ UNCHANGED << tempoVars, fileVars >>
    /\ call' = [fn |-> "add", pos |-> click_time, before |-> segments]
    /\ Touch
    /\ exported' = NoExport
    /\ UNCHANGED << data_len, num_measures >>
    /\ UNCHANGED playVars

\* RcyController.remove_segment -> WavAudioProcessor.remove_segment
RemoveSegment(click_time) ==
    /\ segments' = RemoveSegmentList(segments, click_time)
    /\ UpdateSlices(segments', total_time)
    /\ query' = NoQuery
    /\ UNCHANGED << tempoVars, fileVars >>
    /\ call' = LET undo == call.fn = "add" /\ call.pos = click_time
               IN  [fn |-> "remove", pos |-> click_time, before |-> segments,
                    undoes_add |-> undo,
                    prior |-> IF undo THEN call.before ELSE << >>]
    /\ Touch
    /\ exported' = NoExport
    /\ UNCHANGED << data_len, num_measures >>
    /\ UNCHANGED playVars

\* RcyView.on_cut_button_clicked -> RcyController.cut_audio ->
\* WavAudioProcessor.cut_audio, then RcyView.clear_markers
CutAudio ==
    LET n == CutLength(data_len, start_marker_pos, end_marker_pos)
    IN  /\ IF n = 0
           THEN /\ UNCHANGED << data_len, total_len, segments, current_slices >>
                /\ ClearMarkers(total_time)
           ELSE /\ data_len' = n
                /\ total_len' = n
                /\ segments' = << >>
                /\ current_slices' = SliceTimes(<< >>)
                /\ ClearMarkers(TimeOfLen(n))
        /\ query' = NoQuery
        /\ UNCHANGED filename
        /\ UNCHANGED tempoVars
        /\ call' = NoCall
        /\ Touch
        /\ exported' = NoExport
        /\ UNCHANGED num_measures
        /\ UNCHANGED playVars

\* RcyView.on_motion_notify / on_button_release: drag the start marker
SetStartMarker(x) ==
    /\ x < end_marker_pos
    /\ start_marker_pos' = x
    /\ query' = NoQuery
    /\ UNCHANGED << tempoVars, fileVars >>
    /\ call' = NoCall
    /\ Touch
    /\ exported' = NoExport
    /\ UNCHANGED << data_len, segments, num_measures, current_slices,
                    end_marker_pos >>
    /\ UNCHANGED playVars

\* RcyView.on_motion_notify / on_button_release: drag the end marker
SetEndMarker(x) ==
    /\ x > start_marker_pos
    /\ end_marker_pos' = x
    /\ query' = NoQuery
    /\ UNCHANGED << tempoVars, fileVars >>
    /\ call' = NoCall
    /\ Touch
    /\ exported' = NoExport
    /\ UNCHANGED << data_len, segments, num_measures, current_slices,
                    start_marker_pos >>
    /\ UNCHANGED playVars

\* ExportUtils.export_segments(model, tempo, num_measures, directory,
\* start_pos, end_pos) on the store as it is
Export(start_pos, end_pos) ==
    /\ exported' = ExportBracket(segments, data_len, start_pos, end_pos)
    /\ segments' = SegmentsAfterExport(segments, data_len, start_pos, end_pos)
    /\ query' = NoQuery
    /\ UNCHANGED << tempoVars, fileVars >>
    /\ call' = [fn |-> "export_segments", before |-> segments,
                start_pos |-> start_pos, end_pos |-> end_pos,
                res |-> export_segments(segments, data_len, start_pos, end_pos)]
    /\ Touch
    /\ UNCHANGED << data_len, num_measures, current_slices, start_marker_pos,
                    end_marker_pos >>
    /\ UNCHANGED playVars

\* RcyController.export_segments -> ExportUtils.export_segments with the
\* controller's markers
ExportSegments == Export(start_marker_pos, end_marker_pos)

\* ExportUtils.export_segments(model, tempo, 4, temp_dir): the markers are
\* left at their default None
ExportWithoutMarkers == Export(None, None)

\* segment lookup for a position: the model's method and the controller's
LookupSegment(click_time) ==
    /\ query' = [pos |-> click_time,
                 model |-> get_segment_boundaries(segments, data_len, click_time),
                 ctrl |-> ctrl_get_segment_boundaries(current_slices, total_time,
                                                      click_time)]
    /\ exported' = NoExport
    /\ UNCHANGED << tempoVars, fileVars >>
    /\ call' = NoCall
    /\ UNCHANGED << data_len, segments, num_measures, current_slices,
                    start_marker_pos, end_marker_pos >>
    /\ UNCHANGED playVars
    /\ UNCHANGED obsVars

Times == 0..total_time

\* a result of the last operation is still being looked at
Observed == query # NoQuery \/ exported # NoExport \/ call.fn # "none"

\* the results of the last operation are dropped; the program's own state
\* is left as it is
Forget ==
    /\ Observed
    /\ query' = NoQuery
    /\ exported' = NoExport
    /\ call' = NoCall
    /\ UNCHANGED << data_len, segments, num_measures, current_slices,
                    start_marker_pos, end_marker_pos >>
    /\ UNCHANGED << tempoVars, fileVars >>
    /\ UNCHANGED playVars
    /\ UNCHANGED obsVars

\* Every handler resets the results of the operation before it, so the
\* program states reached do not depend on them: a handler is taken once
\* they are dropped.  The one sequence in which the second operation looks
\* at the first is remove_segment at the position just added.
NextStore ==
    \/ ~Observed /\ \E n \in 1..MaxSamples : LoadAudioFile(n)
    \/ ~Observed /\ \E n \in 1..MaxSamples, m \in 1..MaxMeasures : LoadPreset(n, m)
    \/ ~Observed /\ \E n \in 1..MaxMeasures : OnMeasuresChanged(n)
    \/ ~Observed /\ \E r \in 1..MaxResolution : SplitByMeasures(r)
    \/ ~Observed /\ \E f \in SUBSET (0..(data_len \div HopLength)) :
                        SplitByTransients(f)
    \/ ~Observed /\ \E t \in Times : AddSegment(t)
    \/ ~Observed /\ \E t \in Times : RemoveSegment(t)
    \/ call.fn = "add" /\ RemoveSegment(call.pos)
    \/ ~Observed /\ CutAudio
    \/ ~Observed /\ \E x \in Times : SetStartMarker(x)
    \/ ~Observed /\ \E x \in Times : SetEndMarker(x)
    \/ ~Observed /\ ExportSegments
    \/ ~Observed /\ ExportWithoutMarkers
    \/ ~Observed /\ \E t \in Times : LookupSegment(t)
    \/ Forget

Spec == Init /\ [][NextStore]_vars

\* loading: files that load, files that fail to load, and boundaries added
\* in between
NextLoad ==
    \/ ~Observed /\ \E n \in 1..MaxSamples : LoadAudioFile(n)
    \/ ~Observed /\ \E n \in 1..MaxSamples, m \in 1..MaxMeasures : LoadPreset(n, m)
    \/ ~Observed /\ \E file \in BadFiles : FailedLoad(file)
    \/ ~Observed /\ \E t \in Times : AddSegment(t)
    \/ Forget

SpecLoad == Init /\ [][NextLoad]_vars

\* ---------------------------------------------------------------------
\* Playback: sounddevice, WavAudioProcessor.play_segment / stop_playback
\* ---------------------------------------------------------------------

\* the stream that was outputting has ended (played out, stopped, or replaced
\* by a new sd.play): every thread blocked in sd.wait() returns
Release(thr) == [i \in 1..Len(thr) |-> [thr[i] EXCEPT !.blocked = FALSE]]

\* extract_segment's range check (ValueError when it fails)
ValidRange(len, start_sample, end_sample) ==
    /\ ~(start_sample < 0 \/ start_sample >= len \/ end_sample > len)
    /\ ~(start_sample >= end_sample)

\* threading.Thread(target=play_audio).start(): the thread record
NewThread == [pc |-> "created", blocked |-> FALSE]

\* mutant of stop_playback: sd.stop() without self.is_playing = False
StopOutcome_KeepsPlaying ==
    IF is_playing
    THEN [is_playing |-> TRUE, stream |-> 0, threads |-> Release(threads)]
    ELSE [is_playing |-> is_playing, stream |-> stream, threads |-> threads]

\* WavAudioProcessor.stop_playback: values of is_playing, stream, threads after
\* (sd.stop() stops the stream of the last sd.play, the only one outputting)
StopOutcome ==
    IF is_playing
    THEN [is_playing |-> FALSE, stream |-> 0, threads |-> Release(threads)]
    ELSE [is_playing |-> is_playing, stream |-> stream, threads |-> threads]

\* mutant of play_segment: the worker is started although the pipeline raised
PlayOutcome_StartsAnyway(start_time, end_time, reverse) ==
    LET lo == Min(start_time, end_time)
        hi == Max(start_time, end_time)
        start_sample == get_sample_at_time(lo)
        end_sample == get_sample_at_time(hi)
    IN  IF is_playing
        THEN [res |-> "stopped", slot |-> 0] @@ StopOutcome
        ELSE [res |-> IF ValidRange(data_len, start_sample, end_sample)
                      THEN "started" ELSE "failed",
              slot |-> Len(threads) + 1,
              is_playing |-> is_playing, stream |-> stream,
              threads |-> Append(threads, NewThread)]

\* WavAudioProcessor.play_segment(start_time, end_time, reverse): its result
\* ("stopped" and "failed" are return False, "started" is return True) and the
\* values of is_playing, stream, threads after the call
PlayOutcome(start_time, end_time, reverse) ==
    LET lo == Min(start_time, end_time)
        hi == Max(start_time, end_time)
        start_sample == get_sample_at_time(lo)
        end_sample == get_sample_at_time(hi)
    IN  IF is_playing
        THEN [res |-> "stopped", slot |-> 0] @@ StopOutcome
        ELSE IF ~ValidRange(data_len, start_sample, end_sample)
        THEN [res |-> "failed", slot |-> 0, is_playing |-> is_playing,
              stream |-> stream, threads |-> threads]
        ELSE [res |-> "started", slot |-> Len(threads) + 1,
              is_playing |-> is_playing, stream |-> stream,
              threads |-> Append(threads, NewThread)]

\* a thread can be started: fewer than MaxThreads are alive (bound of the model)
CanStart == is_playing \/ Len(threads) < MaxThreads

ApplyOutcome(o) ==
    /\ is_playing' = o.is_playing
    /\ stream' = o.stream
    /\ threads' = o.threads

\* a reference to thread r after thread i has exited (0: that thread is gone)
AfterExit(r, i) == IF r = i THEN 0 ELSE IF r > i THEN r - 1 ELSE r

\* -- the playback thread, play_audio(), statement by statement --

\* self.is_playing = True
ThreadSetPlaying(s) ==
    /\ s \in DOMAIN threads
    /\ threads[s].pc = "created"
    /\ is_playing' = TRUE
    /\ threads' = [threads EXCEPT ![s].pc = "set"]
    /\ UNCHANGED << data_len, segments, playback_just_ended, num_measures,
                    playback_mode, is_playing_reverse, current_segment,
                    current_slices, start_marker_pos, end_marker_pos,
                    stream, query, exported, call, source_bpm, preset_measures, filename, total_len >>
    /\ UNCHANGED obsVars

\* sd.play(segment, playback_sample_rate): stops the previous stream, starts
\* this one
ThreadSdPlay(s) ==
    /\ s \in DOMAIN threads
    /\ threads[s].pc = "set"
    /\ stream' = s
    /\ threads' = [Release(threads) EXCEPT ![s].pc = "playing"]
    /\ UNCHANGED << data_len, segments, is_playing, playback_just_ended,
                    num_measures, playback_mode, is_playing_reverse,
                    current_segment, current_slices, start_marker_pos,
                    end_marker_pos, query, exported, call, source_bpm, preset_measures, filename, total_len >>
    /\ UNCHANGED obsVars

\* sd.wait(): block on the current stream (returns at once when there is none)
ThreadSdWait(s) ==
    /\ s \in DOMAIN threads
    /\ threads[s].pc = "playing"
    /\ threads' = [threads EXCEPT ![s].pc = "waiting", ![s].blocked = (stream # 0)]
    /\ UNCHANGED << data_len, segments, is_playing, playback_just_ended,
                    num_measures, playback_mode, is_playing_reverse,
                    current_segment, current_slices, start_marker_pos,
                    end_marker_pos, stream, query, exported, call, source_bpm, preset_measures, filename, total_len >>
    /\ UNCHANGED obsVars

\* mutant of the finally block: self.is_playing is left as it is
ThreadFinally_KeepsPlaying(s) ==
    /\ s \in DOMAIN threads
    /\ threads[s].pc = "waiting"
    /\ ~threads[s].blocked
    /\ is_playing' = is_playing
    /\ threads' = [threads EXCEPT ![s].pc = "ended"]
    /\ UNCHANGED << data_len, segments, playback_just_ended, num_measures,
                    playback_mode, is_playing_reverse, current_segment,
                    current_slices, start_marker_pos, end_marker_pos,
                    stream, query, exported, call, source_bpm, preset_measures, filename, total_len >>
    /\ UNCHANGED obsVars

\* sd.wait() has returned; finally: self.is_playing = False
ThreadFinally(s) ==
    /\ s \in DOMAIN threads
    /\ threads[s].pc = "waiting"
    /\ ~threads[s].blocked
    /\ is_playing' = FALSE
    /\ threads' = [threads EXCEPT ![s].pc = "ended"]
    /\ UNCHANGED << data_len, segments, playback_just_ended, num_measures,
                    playback_mode, is_playing_reverse, current_segment,
                    current_slices, start_marker_pos, end_marker_pos,
                    stream, query, exported, call, source_bpm, preset_measures, filename, total_len >>
    /\ UNCHANGED obsVars

\* finally: self.playback_just_ended = True; the thread exits
ThreadExit(s) ==
    /\ s \in DOMAIN threads
    /\ threads[s].pc = "ended"
    /\ playback_just_ended' = TRUE
    /\ threads' = RemoveAt(threads, s)
    /\ stream' = AfterExit(stream, s)
    /\ lastMain' = [lastMain EXCEPT !.slot = AfterExit(lastMain.slot, s)]
    /\ UNCHANGED << data_len, segments, is_playing, num_measures,
                    playback_mode, is_playing_reverse, current_segment,
                    current_slices, start_marker_pos, end_marker_pos,
                    query, exported, call, source_bpm, preset_measures, filename, total_len, session, played >>

\* the audio device reaches the end of the buffer of the outputting stream
DeviceComplete ==
    /\ stream # 0
    /\ stream' = 0
    /\ threads' = Release(threads)
    /\ session' = IF session = "quiet" THEN "completed" ELSE session
    /\ UNCHANGED << data_len, segments, is_playing, playback_just_ended,
                    num_measures, playback_mode, is_playing_reverse,
                    current_segment, current_slices, start_marker_pos,
                    end_marker_pos, query, exported, call, source_bpm, preset_measures, filename, total_len,
                    lastMain, played >>

\* ---------------------------------------------------------------------
\* Playback: RcyController / RcyView handlers (GUI thread)
\* ---------------------------------------------------------------------
NoSegment == << None, None >>
LoopModes == {"loop", "loop-reverse"}

Shift(rec) == lastMain' = rec

\* RcyController.stop_playback: current_segment after it
SegmentAfterStop ==
    IF playback_mode \in LoopModes THEN NoSegment ELSE current_segment

\* a user play request met is_playing: RcyController.stop_playback, and
\* `clear` tells whether the caller also clears current_segment
ToggleStop(clear) ==
    /\ ApplyOutcome(StopOutcome)
    /\ current_segment' = IF clear THEN NoSegment ELSE SegmentAfterStop
    /\ Shift(MainOp("play", "stopped", 0))
    /\ session' = "stopped"
    /\ UNCHANGED << is_playing_reverse, played >>

\* a user play request that reaches WavAudioProcessor.play_segment
UserPlay(start_time, end_time) ==
    LET o == PlayOutcome(start_time, end_time, FALSE)
    IN  /\ CanStart
        /\ ApplyOutcome(o)
        /\ Shift(MainOp("play", o.res, o.slot))
        /\ session' = IF o.res = "started" THEN "quiet" ELSE "idle"
        /\ played' = IF o.res = "started"
                      THEN << start_time, end_time, FALSE >> ELSE NoPlay

\* RcyController.play_segment(click_time): click on the waveform
PlaySegment(click_time) ==
    /\ IF is_playing
       THEN ToggleStop(TRUE)
       ELSE LET seg == ctrl_get_segment_boundaries(current_slices, total_time,
                                                   click_time)
            IN  /\ current_segment' = seg
                /\ is_playing_reverse' = FALSE
                /\ UserPlay(seg[1], seg[2])
    /\ query' = NoQuery
    /\ UNCHANGED << tempoVars, fileVars >>
    /\ call' = NoCall
    /\ exported' = NoExport
    /\ UNCHANGED << data_len, segments, playback_just_ended, num_measures,
                    playback_mode, current_slices, start_marker_pos,
                    end_marker_pos >>

\* RcyController.play_selected_region: play between the markers
PlaySelectedRegion ==
    /\ IF is_playing
       THEN ToggleStop(FALSE)
       ELSE /\ start_marker_pos # None /\ end_marker_pos # None
            /\ current_segment' = << start_marker_pos, end_marker_pos >>
            /\ is_playing_reverse' = FALSE
            /\ UserPlay(start_marker_pos, end_marker_pos)
    /\ query' = NoQuery
    /\ UNCHANGED << tempoVars, fileVars >>
    /\ call' = NoCall
    /\ exported' = NoExport
    /\ UNCHANGED << data_len, segments, playback_just_ended, num_measures,
                    playback_mode, current_slices, start_marker_pos,
                    end_marker_pos >>

\* RcyView.toggle_playback: space bar; the markers are always shown, so the
\* play branch calls model.play_segment(start_pos, end_pos) directly
TogglePlayback ==
    /\ IF is_playing
       THEN ToggleStop(FALSE)
       ELSE /\ UserPlay(start_marker_pos, end_marker_pos)
            /\ UNCHANGED << current_segment, is_playing_reverse >>
    /\ query' = NoQuery
    /\ UNCHANGED << tempoVars, fileVars >>
    /\ call' = NoCall
    /\ exported' = NoExport
    /\ UNCHANGED << data_len, segments, playback_just_ended, num_measures,
                    playback_mode, current_slices, start_marker_pos,
                    end_marker_pos >>

\* RcyController.stop_playback called on its own (stop() of the session)
StopPlayback ==
    /\ ApplyOutcome(StopOutcome)
    /\ current_segment' = SegmentAfterStop
    /\ Shift(MainOp("stop", "none",
                     IF lastMain.op = "play" /\ lastMain.res = "started"
                     THEN lastMain.slot ELSE 0))
    /\ session' = "stopped"
    /\ query' = NoQuery
    /\ UNCHANGED << tempoVars, fileVars >>
    /\ call' = NoCall
    /\ exported' = NoExport
    /\ UNCHANGED << data_len, segments, playback_just_ended, num_measures,
                    playback_mode, is_playing_reverse, current_slices,
                    start_marker_pos, end_marker_pos, played >>

\* RcyController.set_playback_mode(mode), mode valid and different
SetPlaybackMode(mode) ==
    /\ mode # playback_mode
    /\ playback_mode' = mode
    /\ Shift(MainOp("other", "none", 0))
    /\ session' = IF InSession THEN "idle" ELSE session
    /\ query' = NoQuery
    /\ UNCHANGED << tempoVars, fileVars >>
    /\ call' = NoCall
    /\ exported' = NoExport
    /\ UNCHANGED << data_len, segments, is_playing, playback_just_ended,
                    num_measures, is_playing_reverse, current_segment,
                    current_slices, start_marker_pos, end_marker_pos, threads,
                    stream, played >>

\* RcyController.handle_loop_playback: TRUE when it replays
LoopReplays ==
    /\ playback_mode \in LoopModes
    /\ current_segment[1] # None
    /\ current_segment[2] # None

\* direction handle_loop_playback asks for
LoopReverse ==
    IF playback_mode = "loop-reverse" THEN ~is_playing_reverse ELSE FALSE

\* RcyController.check_playback_status: the 100 ms timer found the
\* playback_just_ended flag set (it does nothing otherwise)
CheckPlaybackStatus ==
    /\ playback_just_ended
    /\ playback_just_ended' = FALSE
    /\ IF LoopReplays
       THEN LET o == PlayOutcome(current_segment[1], current_segment[2],
                                 LoopReverse)
            IN  /\ CanStart
                /\ is_playing_reverse' =
                       IF playback_mode = "loop-reverse" THEN ~is_playing_reverse
                       ELSE is_playing_reverse
                /\ ApplyOutcome(o)
                /\ Shift(MainOp("other", "none", 0))
                /\ played' = IF o.res = "started"
                              THEN << current_segment[1], current_segment[2],
                                      LoopReverse >>
                              ELSE played
                /\ session' = IF o.res = "started" /\ session = "completed"
                               THEN "quiet" ELSE session
       ELSE /\ Shift(MainOp("other", "none", 0))
            /\ UNCHANGED << is_playing, stream, threads, is_playing_reverse,
                            played, session >>
    /\ query' = NoQuery
    /\ UNCHANGED << tempoVars, fileVars >>
    /\ call' = NoCall
    /\ exported' = NoExport
    /\ UNCHANGED << data_len, segments, num_measures, playback_mode,
                    current_segment, current_slices, start_marker_pos,
                    end_marker_pos >>

ThreadStep(s) ==
    \/ ThreadSetPlaying(s)
    \/ ThreadSdPlay(s)
    \/ ThreadSdWait(s)
    \/ ThreadFinally(s)
    \/ ThreadExit(s)

NextPlay ==
    \/ \E t \in Times : PlaySegment(t)
    \/ PlaySelectedRegion
    \/ TogglePlayback
    \/ StopPlayback
    \/ \E m \in Modes : SetPlaybackMode(m)
    \/ CheckPlaybackStatus
    \/ \E s \in Slots : ThreadStep(s)
    \/ DeviceComplete
    \/ \E r \in 1..MaxResolution : SplitByMeasures(r)

\* the playback session is explored over one two-sample buffer
InitPlay == Init /\ data_len = 2 /\ num_measures = 1

SpecPlay == InitPlay /\ [][NextPlay]_vars

\* Scheduling: the operating system runs every started thread, the device
\* plays every buffer to its end (buffers are finite), and the controller's
\* QTimer fires every 100 ms.  User input is under no obligation.
SpecPlayFair ==
    /\ InitPlay
    /\ [][NextPlay]_vars
    /\ \A s \in Slots : WF_vars(ThreadStep(s))
    /\ WF_vars(DeviceComplete)
    /\ WF_vars(CheckPlaybackStatus)

\* The session while the playback mode stays what it is at startup
\* (one-shot): every handler but set_playback_mode, same scheduling.
NextOneShot ==
    \/ \E t \in Times : PlaySegment(t)
    \/ PlaySelectedRegion
    \/ TogglePlayback
    \/ StopPlayback
    \/ CheckPlaybackStatus
    \/ \E s \in Slots : ThreadStep(s)
    \/ DeviceComplete
    \/ \E r \in 1..MaxResolution : SplitByMeasures(r)

SpecOneShotFair ==
    /\ InitPlay
    /\ [][NextOneShot]_vars
    /\ \A s \in Slots : WF_vars(ThreadStep(s))
    /\ WF_vars(DeviceComplete)
    /\ WF_vars(CheckPlaybackStatus)

\* ---------------------------------------------------------------------
\* Claims about the segment store
\* ---------------------------------------------------------------------

\* the list is sorted (list.sort after every append): what the lookups rely on
SortedList(segs) == \A i, j \in 1..Len(segs) : i < j => segs[i] <= segs[j]

\* C1: after any sequence of load, split, add, remove, cut and export the
\* stored boundary list is strictly increasing (so without duplicates) and
\* every stored value lies strictly between 0 and totalSamples.
C1_BoundariesValid ==
    /\ \A i, j \in 1..Len(segments) : i < j => segments[i] < segments[j]
    /\ \A i \in 1..Len(segments) : 0 < segments[i] /\ segments[i] < data_len

\* the partition derived from a boundary list: consecutive pairs of
\* 0, b1, ..., bk, totalSamples (in samples)
PartitionOf(segs, len) ==
    LET pts == << 0 >> \o segs \o << len >>
    IN  {<< pts[i], pts[i + 1] >> : i \in 1..(Len(pts) - 1)}

\* C9: segmentContaining never returns a pair with start >= end, and for
\* every position p in [0, totalSamples) the returned pair is the unique
\* segment of the boundary-derived partition that contains p.
C9_LookupContains ==
    query.pos # None =>
        LET p == get_sample_at_time(query.pos)
            s == get_sample_at_time(query.model[1])
            e == get_sample_at_time(query.model[2])
        IN  /\ query.model[1] < query.model[2]
            /\ p < data_len =>
                   /\ << s, e >> \in PartitionOf(segments, data_len)
                   /\ s <= p /\ p < e
                   /\ \A seg \in PartitionOf(segments, data_len) :
                          (seg[1] <= p /\ p < seg[2]) => seg = << s, e >>

\* reference lookup of the claim, in samples
RefLookup(segs, len, p) ==
    LET above == {segs[i] : i \in 1..Len(segs)} \cap {b \in 0..len : b > p}
        below == ({segs[i] : i \in 1..Len(segs)} \cap {b \in 0..len : b <= p}) \cup {0}
    IN  IF segs = << >> THEN << 0, len >>
        ELSE IF above = {} THEN << segs[Len(segs)], len >>
        ELSE << CHOOSE b \in below : \A c \in below : c <= b,
                CHOOSE b \in above : \A c \in above : b <= c >>

\* C10: the store's lookup equals the reference lookup for every position and
\* every (sorted) boundary list the program reaches; a position equal to a
\* boundary belongs to the segment that starts at that boundary.
C10_LookupIsReference ==
    query.pos # None =>
        LET p == get_sample_at_time(query.pos)
            ref == RefLookup(segments, data_len, p)
        IN  /\ query.model = << SampleToTime(ref[1]), SampleToTime(ref[2]) >>
            /\ (\E i \in 1..Len(segments) : segments[i] = p)
                   => query.model[1] = SampleToTime(p)

\* witness of C10: a lookup at a position equal to a stored boundary, with a
\* later boundary behind it
C10_Witness ==
    /\ query.pos # None
    /\ Len(segments) >= 2
    /\ segments[1] = get_sample_at_time(query.pos)
    /\ segments[2] > segments[1]
    /\ query.model = << SampleToTime(segments[1]), SampleToTime(segments[2]) >>

\* ---------------------------------------------------------------------
\* Claims about the playback session
\* ---------------------------------------------------------------------

\* a step of the GUI thread that is a user play request
UserPlayStep ==
    \/ \E t \in Times : PlaySegment(t)
    \/ PlaySelectedRegion
    \/ TogglePlayback

\* a step of the GUI thread that is a user request of any kind
UserStep ==
    \/ UserPlayStep
    \/ StopPlayback
    \/ \E m \in Modes : SetPlaybackMode(m)
    \/ \E r \in 1..MaxResolution : SplitByMeasures(r)

\* the step starts a playback thread
NewWorker == Len(threads') = Len(threads) + 1

\* the playback thread s was started for has neither completed nor been stopped
PlaybackPending(s) ==
    /\ s \in DOMAIN threads
    /\ threads[s].pc \in {"created", "set"} \/ stream = s

NoOutput == stream = 0
AllIdle == threads = << >>

\* C2: a play request that directly follows a play request that started a
\* playback, with no stop and no natural completion in between, toggles:
\* it reports "stopped", starts no second worker (so no second stream), and
\* the session is Idle after it, whatever the worker has done meanwhile.
C2_SecondPlayToggles ==
    [][(/\ lastMain.op = "play" /\ lastMain.res = "started"
        /\ PlaybackPending(lastMain.slot)
        /\ UserPlayStep)
       => (/\ lastMain'.res = "stopped"
           /\ ~NewWorker
           /\ ~is_playing')]_vars

\* C3: a play request made while is_playing is true acts as a stop: it
\* reports "stopped", starts no worker, leaves is_playing false and no stream
\* outputting when it returns.
C3_PlayWhilePlayingStops ==
    [][(is_playing /\ UserPlayStep)
       => (/\ lastMain' = MainOp("play", "stopped", 0)
           /\ ~NewWorker
           /\ ~is_playing'
           /\ stream' = 0
           /\ \A s \in DOMAIN threads' : ~threads'[s].blocked)]_vars

\* witness of C3: a play request has just stopped a playback whose worker was
\* blocked in sd.wait() and is now released
C3_Witness ==
    /\ lastMain = MainOp("play", "stopped", 0)
    /\ ~is_playing
    /\ NoOutput
    /\ \E s \in DOMAIN threads : threads[s].pc = "waiting" /\ ~threads[s].blocked

\* C4: once stop() has been called right after a play request that returned
\* "started", the session is Idle and the segment that play started is not
\* being output, at every moment until the next playback request.
C4_StopAfterPlayIsIdle ==
    (lastMain.op = "stop" /\ lastMain.slot # 0)
        => (~is_playing /\ stream # lastMain.slot)

\* C5: after a manual stop (stop(), or a play request acting as toggle) no
\* playback thread is started by mode changes and timer polls, up to the
\* next user play request.
C5_NoReplayAfterStop ==
    [][(session = "stopped" /\ session' = "stopped") => ~NewWorker]_vars

\* C6: in loop-reverse mode with no user input since the play request, every
\* playback the poll starts has the range of the one before it and the
\* opposite direction, the first one (the play request's) being forward.
C6_LoopReverseAlternates ==
    [][(InSession /\ playback_mode = "loop-reverse" /\ CheckPlaybackStatus
        /\ NewWorker)
       => (/\ played # NoPlay
           /\ played' = << played[1], played[2], ~played[3] >>)]_vars

\* C7: in loop mode with no user input since the play request, a natural
\* completion is followed by a new playback, and that playback is forward
\* and of the same range.
C7_LoopReplays ==
    /\ (session = "completed" /\ playback_mode = "loop") ~> (session # "completed")
    /\ [][(InSession /\ playback_mode = "loop" /\ CheckPlaybackStatus
           /\ NewWorker)
          => played' = << played[1], played[2], FALSE >>]_vars

\* C8: in one-shot mode, once the user has made the last request, whatever
\* was started plays to its end and the session is and stays Idle (no worker
\* alive, no stream outputting, is_playing false); and in one-shot mode
\* nothing but a user play request starts a playback.
C8_OneShotEnds ==
    /\ \/ []<><<UserStep>>_vars
       \/ []<>(playback_mode # "one-shot")
       \/ <>[](~is_playing /\ NoOutput /\ AllIdle)
    /\ [][(playback_mode = "one-shot" /\ ~UserPlayStep) => ~NewWorker]_vars

\* witness of C8: a one-shot playback has been played out, its worker is
\* gone, the poll has consumed the completion flag and nothing plays
C8_Witness ==
    /\ session = "completed"
    /\ playback_mode = "one-shot"
    /\ played # NoPlay
    /\ ~is_playing /\ NoOutput /\ AllIdle
    /\ ~playback_just_ended
    /\ lastMain.op = "other"

\* ---------------------------------------------------------------------
\* Segment store: add / remove / split
\* ---------------------------------------------------------------------

Elems(s) == {s[i] : i \in 1..Len(s)}

\* the last operation was remove_segment(p) issued right after
\* add_segment(p), and the list before the add did not hold p's sample
AddThenRemove ==
    /\ call.fn = "remove"
    /\ call.undoes_add
    /\ get_sample_at_time(call.pos) \notin Elems(call.prior)

\* C11: when a position whose sample is not in the list is added and then
\* removed at the same position, the list is exactly what it was before
\* the add
C11_AddRemoveRestores == AddThenRemove => segments = call.prior

C11_Witness ==
    /\ AddThenRemove
    /\ Len(call.prior) = 1
    /\ get_sample_at_time(call.pos) > call.prior[1]

\* strictly increasing values inside the open interval (0, len)
StrictInterior(s, len) ==
    /\ \A i \in 1..Len(s) : 0 < s[i] /\ s[i] < len
    /\ \A i \in 1..(Len(s) - 1) : s[i] < s[i + 1]

\* lengths of the segments the boundary list s cuts a buffer of len samples
\* into: [0, s1), [s1, s2), ..., [sk, len)
SegmentLengths(s, len) ==
    [i \in 1..(Len(s) + 1) |->
        (IF i = Len(s) + 1 THEN len ELSE s[i]) - (IF i = 1 THEN 0 ELSE s[i - 1])]

RECURSIVE SeqSum(_)
SeqSum(s) == IF s = << >> THEN 0 ELSE Head(s) + SeqSum(Tail(s))

\* C12: every split_by_measures step with n = num_measures *
\* measure_resolution parts leaves n-1 strictly increasing boundaries
\* inside (0, totalSamples) in the store, and the n segment lengths sum to
\* totalSamples
C12_SplitEqually ==
    [][\A resolution \in 1..MaxResolution :
          SplitByMeasures(resolution) =>
              /\ Len(segments') = num_measures * resolution - 1
              /\ StrictInterior(segments', data_len')
              /\ Len(SegmentLengths(segments', data_len'))
                     = num_measures * resolution
              /\ SeqSum(SegmentLengths(segments', data_len')) = data_len']_vars

\* C13: right after add_segment(p) for a position whose sample index was
\* already a stored boundary, the list is what it was before the call
C13_AddExistingIsNoOp ==
    (call.fn = "add" /\ get_sample_at_time(call.pos) \in Elems(call.before))
        => segments = call.before

\* C14: right after remove_segment(q) on a non-empty list exactly one
\* boundary is gone, one at minimal absolute distance from q's sample, the
\* others keep their values and order; on an empty list nothing changes
C14_RemoveClosest ==
    call.fn = "remove" =>
        LET q == get_sample_at_time(call.pos)
            before == call.before
        IN  IF before = << >> THEN segments = << >>
            ELSE \E i \in 1..Len(before) :
                    /\ segments = RemoveAt(before, i)
                    /\ \A j \in 1..Len(before) :
                           Abs(before[i] - q) <= Abs(before[j] - q)

C14_Witness ==
    /\ call.fn = "remove"
    /\ Len(call.before) = 2
    /\ call.before[1] < call.before[2]
    /\ segments = << call.before[1] >>

\* the values of s that lie inside the open interval (0, len), in order
RECURSIVE Interior(_, _)
Interior(s, len) ==
    IF s = << >> THEN << >>
    ELSE IF 0 < Head(s) /\ Head(s) < len
         THEN << Head(s) >> \o Interior(Tail(s), len)
         ELSE Interior(Tail(s), len)

\* C15: right after split_by_transients the store holds the detector's
\* onset samples restricted to (0, totalSamples): no boundary is <= 0 or
\* >= totalSamples, and an empty detector result leaves the store empty
C15_OnsetsInterior ==
    call.fn = "split_by_transients" =>
        /\ segments = Interior(call.onsets, data_len)
        /\ \A i \in 1..Len(segments) : 0 < segments[i] /\ segments[i] < data_len
        /\ (call.onsets = << >> => segments = << >>)

\* ---------------------------------------------------------------------
\* Segment processor: the pipeline functions of audio_processor.py
\* ---------------------------------------------------------------------

\* Sample values identify the samples: sample i of the left channel is
\* 2i-1 and of the right channel 2i, so a lost, moved or swapped sample
\* shows in the output.  A mono file has data_right = data_left.
DataLeft(len) == [i \in 1..len |-> 2 * i - 1]

DataRight(len, is_stereo) ==
    IF is_stereo THEN [i \in 1..len |-> 2 * i] ELSE DataLeft(len)

\* a real number n/d (d > 0): an integer when the division is exact, else
\* the reduced fraction << numerator, denominator >>
Frac(n, d) ==
    LET g == GCD(Abs(n), d)
    IN  IF d \div g = 1 THEN n \div g ELSE << n \div g, d \div g >>

\* Python int(n / d) for d > 0: truncation toward zero
Trunc(n, d) == IF n >= 0 THEN n \div d ELSE -((-n) \div d)

\* Python round(n / d) for n >= 0, d > 0: nearest integer, ties to even
Round(n, d) ==
    LET q == n \div d
        r == n % d
    IN  IF 2 * r < d THEN q
        ELSE IF 2 * r > d THEN q + 1
        ELSE IF q % 2 = 0 THEN q ELSE q + 1

\* a raised ValueError: the call returns nothing
Failure == [ok |-> FALSE]

\* mutant of Slice: the slice starts one sample early
Slice_OffByOne(data, start_sample, end_sample) ==
    [i \in 1..Max(end_sample - start_sample, 0) |->
        data[Max(start_sample + i - 1, 1)]]

\* data[start:end] of Python for 0 <= start, end <= len(data)
Slice(data, start_sample, end_sample) ==
    [i \in 1..Max(end_sample - start_sample, 0) |-> data[start_sample + i]]

\* np.column_stack((left, right)): rows << left[i], right[i] >>
ColumnStack(left, right) == [i \in 1..Len(left) |-> << left[i], right[i] >>]

\* extract_segment: the segment, or Failure
extract_segment(data_left, data_right, start_sample, end_sample, is_stereo) ==
    IF ~ValidSampleRange(Len(data_left), start_sample, end_sample)
    THEN Failure
    ELSE [ok |-> TRUE,
          seg |-> IF is_stereo
                  THEN ColumnStack(Slice(data_left, start_sample, end_sample),
                                   Slice(data_right, start_sample, end_sample))
                  ELSE Slice(data_left, start_sample, end_sample)]

\* mutant of reverse_segment: the first sample is moved to the end
reverse_segment_Rotates(segment) ==
    IF segment = << >> THEN segment ELSE Append(Tail(segment), Head(segment))

\* reverse_segment: np.flipud of the rows (stereo) or np.flip (mono) of a copy
reverse_segment(segment) ==
    [i \in 1..Len(segment) |-> segment[Len(segment) + 1 - i]]

\* apply_playback_tempo: the sample rate it returns (the segment is returned
\* as it is).  int(original_sample_rate * (target_bpm / source_bpm)) is
\* taken over the exact quotient.
AdjustedRate(original_sample_rate, src_bpm, target_bpm, enabled) ==
    IF ~enabled \/ target_bpm = None \/ src_bpm = None \/ src_bpm <= 0
    THEN original_sample_rate
    ELSE Trunc(original_sample_rate * target_bpm, src_bpm)

\* apply_tail_fade: gain << numerator, denominator >> of fade sample k
\* (0-based) of n: 1 - np.linspace(0, 1, n) ** 3 or np.linspace(1, 0, n)
FadeGain(curve, k, n) ==
    IF n = 1 THEN << 1, 1 >>
    ELSE IF curve = "exponential"
         THEN << (n - 1) * (n - 1) * (n - 1) - k * k * k,
                 (n - 1) * (n - 1) * (n - 1) >>
         ELSE << n - 1 - k, n - 1 >>

\* one sample (mono value or stereo row) times a gain
ScaleSample(x, gain, is_stereo) ==
    IF is_stereo
    THEN << Frac(x[1] * gain[1], gain[2]), Frac(x[2] * gain[1], gain[2]) >>
    ELSE Frac(x * gain[1], gain[2])

\* mutant of apply_tail_fade: the fade window is cut off, not attenuated
apply_tail_fade_DropsTail(segment, sample_rate, is_stereo, enabled, duration_ms, curve) ==
    IF ~enabled \/ duration_ms <= 0 THEN segment
    ELSE SubSeq(segment, 1,
                Len(segment) - Min(Trunc(duration_ms * sample_rate, MsPerSecond),
                                   Len(segment)))

\* apply_tail_fade; duration_ms is in milliseconds
apply_tail_fade(segment, sample_rate, is_stereo, enabled, duration_ms, curve) ==
    IF ~enabled \/ duration_ms <= 0 THEN segment
    ELSE LET fade_length_samples ==
                 Min(Trunc(duration_ms * sample_rate, MsPerSecond), Len(segment))
             start_idx == Len(segment) - fade_length_samples
         IN  [i \in 1..Len(segment) |->
                 IF i <= start_idx THEN segment[i]
                 ELSE ScaleSample(segment[i],
                                  FadeGain(curve, i - start_idx - 1,
                                           fade_length_samples),
                                  is_stereo)]

\* process_segment_for_output: << segment, adjusted_sample_rate >> as a
\* record, or Failure when extract_segment raises
process_segment_for_output(data_left, data_right, in) ==
    LET x == extract_segment(data_left, data_right, in.start_sample,
                             in.end_sample, in.is_stereo)
    IN  IF ~x.ok THEN Failure
        ELSE LET r == IF in.reverse THEN reverse_segment(x.seg) ELSE x.seg
             IN  [ok |-> TRUE,
                  seg |-> apply_tail_fade(r, in.sample_rate, in.is_stereo,
                                          in.tail_fade_enabled,
                                          in.fade_duration_ms, in.fade_curve),
                  rate |-> AdjustedRate(in.sample_rate, in.source_bpm,
                                        in.target_bpm,
                                        in.playback_tempo_enabled)]

\* calculate_source_bpm(): (60.0 * measures * 4) / total_time as
\* << numerator, denominator >>, total_time = len / sample_rate
calculate_source_bpm(len, sample_rate, declared) ==
    LET measures == IF declared = None \/ declared <= 0
                    THEN DefaultMeasures ELSE declared
    IN  << SecondsPerMinute * measures * BeatsPerMeasure * sample_rate, len >>

\* get_playback_ratio: a source_bpm <= 0 is recalculated from the duration
\* before the safety check; with total_time <= 0 it is left as it is
get_playback_ratio(enabled, src_bpm, target_bpm, len, sample_rate, measures) ==
    IF ~enabled THEN 1
    ELSE LET src == IF src_bpm <= 0 /\ len > 0
                    THEN calculate_source_bpm(len, sample_rate, measures)
                    ELSE << src_bpm, 1 >>
         IN  IF src[1] <= 0 THEN 1
             ELSE Frac(target_bpm * src[2], src[1])

\* get_playback_ratio as << numerator, denominator >>, for the callers that
\* go on computing with it
PlaybackRatioPair(enabled, src_bpm, target_bpm, len, sample_rate, measures) ==
    IF ~enabled THEN << 1, 1 >>
    ELSE LET src == IF src_bpm <= 0 /\ len > 0
                    THEN calculate_source_bpm(len, sample_rate, measures)
                    ELSE << src_bpm, 1 >>
         IN  IF src[1] <= 0 THEN << 1, 1 >>
             ELSE << target_bpm * src[2], src[1] >>

\* mutant of get_adjusted_sample_rate: the rate is rounded, not truncated
get_adjusted_sample_rate_Rounds(enabled, src_bpm, target_bpm, len, sample_rate, measures) ==
    IF ~enabled THEN sample_rate
    ELSE LET ratio == PlaybackRatioPair(enabled, src_bpm, target_bpm, len,
                                        sample_rate, measures)
         IN  Round(sample_rate * ratio[1], ratio[2])

\* WavAudioProcessor.get_adjusted_sample_rate: int(self.sample_rate * ratio)
get_adjusted_sample_rate(enabled, src_bpm, target_bpm, len, sample_rate, measures) ==
    IF ~enabled THEN sample_rate
    ELSE LET ratio == PlaybackRatioPair(enabled, src_bpm, target_bpm, len,
                                        sample_rate, measures)
         IN  Trunc(sample_rate * ratio[1], ratio[2])

\* ---------------------------------------------------------------------
\* Calls of the pipeline functions on the loaded buffer
\* ---------------------------------------------------------------------

otherVars == << data_len, segments, num_measures, current_slices,
                start_marker_pos, end_marker_pos, query, exported >>

Bpms == {None} \cup (0..MaxBpm)
SampleRates == 1..MaxRate
FadeCurves == {"exponential", "linear"}
FadeDurations == {0, MsPerSecond \div 2, 2 * MsPerSecond}

\* sample positions around the buffer, one past either end included
SamplePositions == (-1)..(data_len + 1)

\* argument lists of process_segment_for_output; the arguments of a stage
\* that is switched off are left at the defaults of the signature
PipeInputs ==
    {in \in [start_sample : SamplePositions, end_sample : SamplePositions,
             sample_rate : SampleRates, is_stereo : BOOLEAN, reverse : BOOLEAN,
             playback_tempo_enabled : BOOLEAN, source_bpm : Bpms,
             target_bpm : Bpms, tail_fade_enabled : BOOLEAN,
             fade_duration_ms : FadeDurations \cup {DefaultFadeMs},
             fade_curve : FadeCurves] :
        /\ (~in.playback_tempo_enabled
              => in.source_bpm = None /\ in.target_bpm = None)
        /\ (~in.tail_fade_enabled
              => in.fade_duration_ms = DefaultFadeMs
                 /\ in.fade_curve = "exponential")
        /\ (in.tail_fade_enabled => in.fade_duration_ms \in FadeDurations)}

\* extract_segment(self.data_left, self.data_right, start, end, is_stereo)
ExtractSegment(start_sample, end_sample, is_stereo) ==
    /\ call.fn = "none"
    /\ UNCHANGED << tempoVars, fileVars >>
    /\ call' = [fn |-> "extract_segment",
                in |-> [start_sample |-> start_sample,
                        end_sample |-> end_sample, is_stereo |-> is_stereo],
                res |-> extract_segment(DataLeft(data_len),
                                        DataRight(data_len, is_stereo),
                                        start_sample, end_sample, is_stereo)]
    /\ UNCHANGED << otherVars, playVars, obsVars >>

\* reverse_segment applied to an extracted segment, and once more to its
\* own result
ReverseSegment ==
    /\ \/ /\ call.fn = "extract_segment"
          /\ call.res.ok
          /\ UNCHANGED << tempoVars, fileVars >>
          /\ call' = [fn |-> "reverse_segment", src |-> call.res.seg,
                      is_stereo |-> call.in.is_stereo,
                      seg |-> reverse_segment(call.res.seg), again |-> FALSE]
       \/ /\ call.fn = "reverse_segment"
          /\ ~call.again
          /\ UNCHANGED << tempoVars, fileVars >>
          /\ call' = [fn |-> "reverse_segment", src |-> call.src,
                      is_stereo |-> call.is_stereo,
                      seg |-> reverse_segment(call.seg), again |-> TRUE]
    /\ UNCHANGED << otherVars, playVars, obsVars >>

\* process_segment_for_output on the loaded buffer
ProcessSegment(in) ==
    /\ call.fn = "none"
    /\ UNCHANGED << tempoVars, fileVars >>
    /\ call' = [fn |-> "process_segment_for_output", in |-> in,
                res |-> process_segment_for_output(
                            DataLeft(data_len),
                            DataRight(data_len, in.is_stereo), in)]
    /\ UNCHANGED << otherVars, playVars, obsVars >>

\* the call export_segments makes for one pair: the thirteen positional
\* arguments (reverse is the literal False) and the two keywords
ExportCall(in) ==
    /\ call.fn = "none"
    /\ ~in.reverse
    /\ UNCHANGED << tempoVars, fileVars >>
    /\ call' = [fn |-> "export_call", in |-> in,
                res |-> IF BindsKeywords(ExportKeywords, PipelineParams)
                        THEN process_segment_for_output(
                                 DataLeft(data_len),
                                 DataRight(data_len, in.is_stereo), in)
                        ELSE Failure]
    /\ UNCHANGED << otherVars, playVars, obsVars >>

\* WavAudioProcessor.get_playback_ratio with the attributes it reads
GetPlaybackRatio(enabled, src_bpm, target_bpm, sample_rate, measures) ==
    /\ call.fn = "none"
    /\ UNCHANGED << tempoVars, fileVars >>
    /\ call' = [fn |-> "get_playback_ratio", enabled |-> enabled,
                source_bpm |-> src_bpm, target_bpm |-> target_bpm,
                res |-> get_playback_ratio(enabled, src_bpm, target_bpm,
                                           data_len, sample_rate,
                                           measures)]
    /\ UNCHANGED << otherVars, playVars, obsVars >>

\* WavAudioProcessor.get_adjusted_sample_rate with the attributes it reads,
\* next to the rate play_segment gets from the pipeline for the same
\* attributes
GetAdjustedSampleRate(enabled, src_bpm, target_bpm, sample_rate, measures) ==
    /\ call.fn = "none"
    /\ UNCHANGED << tempoVars, fileVars >>
    /\ call' = [fn |-> "get_adjusted_sample_rate", enabled |-> enabled,
                source_bpm |-> src_bpm, target_bpm |-> target_bpm,
                sample_rate |-> sample_rate,
                res |-> get_adjusted_sample_rate(enabled, src_bpm, target_bpm,
                                                 data_len, sample_rate, measures),
                pipeline |-> AdjustedRate(sample_rate, src_bpm, target_bpm,
                                          enabled)]
    /\ UNCHANGED << otherVars, playVars, obsVars >>

\* a buffer of n samples of constant value 1.0 (np.ones)
Ones(n, is_stereo) == [i \in 1..n |-> IF is_stereo THEN << 1, 1 >> ELSE 1]

\* segments handed to apply_tail_fade: constant buffers and the extracted
\* heads of the loaded buffer, the empty segment included
FadeSegments(is_stereo) ==
    {Ones(n, is_stereo) : n \in 0..data_len}
        \cup {extract_segment(DataLeft(data_len), DataRight(data_len, is_stereo),
                              0, n, is_stereo).seg : n \in 1..data_len}

\* apply_tail_fade(segment, sample_rate, is_stereo, enabled, duration_ms, curve);
\* after is the caller's buffer once the call has returned: the function
\* writes to segment.copy() only
ApplyTailFade(segment, sample_rate, is_stereo, enabled, duration_ms, curve) ==
    /\ call.fn = "none"
    /\ UNCHANGED << tempoVars, fileVars >>
    /\ call' = [fn |-> "apply_tail_fade",
                in |-> [segment |-> segment, sample_rate |-> sample_rate,
                        is_stereo |-> is_stereo, enabled |-> enabled,
                        duration_ms |-> duration_ms, curve |-> curve],
                res |-> apply_tail_fade(segment, sample_rate, is_stereo,
                                        enabled, duration_ms, curve),
                after |-> segment]
    /\ UNCHANGED << otherVars, playVars, obsVars >>

\* the caller is done with the result
PipeReturn ==
    /\ call.fn # "none"
    /\ UNCHANGED << tempoVars, fileVars >>
    /\ call' = NoCall
    /\ UNCHANGED << otherVars, playVars, obsVars >>

\* a call is made when the previous one has returned
NextPipe ==
    \/ /\ call.fn = "none"
       /\ \E start_sample, end_sample \in SamplePositions, is_stereo \in BOOLEAN :
             ExtractSegment(start_sample, end_sample, is_stereo)
    \/ ReverseSegment
    \/ /\ call.fn = "none"
       /\ \E in \in PipeInputs : ProcessSegment(in)
    \/ /\ call.fn = "none"
       /\ \E in \in PipeInputs : ExportCall(in)
    \/ /\ call.fn = "none"
       /\ \E enabled \in BOOLEAN, src_bpm, target_bpm \in 0..MaxBpm,
             sample_rate \in SampleRates,
             measures \in {None} \cup (1..MaxMeasures) :
             GetPlaybackRatio(enabled, src_bpm, target_bpm, sample_rate,
                              measures)
    \/ /\ call.fn = "none"
       /\ \E enabled \in BOOLEAN, src_bpm, target_bpm \in 0..MaxBpm,
             sample_rate \in SampleRates,
             measures \in {None} \cup (1..MaxMeasures) :
             GetAdjustedSampleRate(enabled, src_bpm, target_bpm, sample_rate,
                                   measures)
    \/ /\ call.fn = "none"
       /\ \E is_stereo, enabled \in BOOLEAN, sample_rate \in SampleRates,
             duration_ms \in FadeDurations, curve \in FadeCurves :
             \E segment \in FadeSegments(is_stereo) :
                ApplyTailFade(segment, sample_rate, is_stereo, enabled,
                              duration_ms, curve)
    \/ PipeReturn

InitPipe == Init /\ num_measures = 1

SpecPipe == InitPipe /\ [][NextPipe]_vars

\* ---------------------------------------------------------------------
\* Segment processor: extraction, reversal, tempo
\* ---------------------------------------------------------------------

\* the last call went through extract_segment
Extracted == call.fn \in {"extract_segment", "process_segment_for_output"}

\* C16: extract_segment, and with it process_segment_for_output, fails
\* exactly when start < 0, or end > len(left), or start >= end; a failed
\* call returns no segment and no rate
C16_InvalidRangeFails ==
    Extracted =>
        /\ ~call.res.ok <=> \/ call.in.start_sample < 0
                            \/ call.in.end_sample > data_len
                            \/ call.in.start_sample >= call.in.end_sample
        /\ ~call.res.ok => DOMAIN call.res = {"ok"}

C16_Witness ==
    /\ call.fn = "process_segment_for_output"
    /\ call.in.start_sample = data_len
    /\ call.in.end_sample = data_len
    /\ ~call.res.ok

\* the last call ran the whole pipeline on a valid range with reverse,
\* tempo adjustment and tail fade switched off
PlainProcess ==
    /\ call.fn = "process_segment_for_output"
    /\ 0 <= call.in.start_sample
    /\ call.in.start_sample < call.in.end_sample
    /\ call.in.end_sample <= data_len
    /\ ~call.in.reverse
    /\ ~call.in.playback_tempo_enabled
    /\ ~call.in.tail_fade_enabled

\* C17: for a valid range with reverse, tempo and fade off the pipeline
\* returns end - start samples that are left[start:end] (rows of
\* left[start:end], right[start:end] when stereo) and the source sample rate
C17_PlainExtraction ==
    PlainProcess =>
        LET n == call.in.end_sample - call.in.start_sample
            left == DataLeft(data_len)
            right == DataRight(data_len, call.in.is_stereo)
        IN  /\ call.res.ok
            /\ Len(call.res.seg) = n
            /\ \A i \in 1..n :
                  call.res.seg[i] =
                      IF call.in.is_stereo
                      THEN << left[call.in.start_sample + i],
                              right[call.in.start_sample + i] >>
                      ELSE left[call.in.start_sample + i]
            /\ call.res.rate = call.in.sample_rate

C17_Witness ==
    /\ PlainProcess
    /\ call.in.is_stereo
    /\ call.in.start_sample = 1
    /\ call.in.end_sample = data_len
    /\ Len(call.res.seg) = 2

\* C18: reverse_segment applied twice to an extracted segment, mono or
\* stereo, gives the extracted segment back
C18_ReverseTwice ==
    (call.fn = "reverse_segment" /\ call.again) => call.seg = call.src

C18_Witness ==
    /\ call.fn = "reverse_segment"
    /\ call.again
    /\ call.is_stereo
    /\ Len(call.src) > 2
    /\ call.seg = call.src

\* one reversal puts sample i at position len + 1 - i
ReverseOnce ==
    (call.fn = "reverse_segment" /\ ~call.again) =>
        \A i \in 1..Len(call.src) : call.seg[i] = call.src[Len(call.src) + 1 - i]

\* C19: get_playback_ratio returns 1.0 when tempo adjustment is disabled,
\* 1.0 when source_bpm <= 0, and target_bpm / source_bpm otherwise
C19_PlaybackRatio ==
    call.fn = "get_playback_ratio" =>
        call.res = IF ~call.enabled THEN 1
                   ELSE IF call.source_bpm <= 0 THEN 1
                   ELSE Frac(call.target_bpm, call.source_bpm)

\* the last call ran the pipeline on a valid range with tempo adjustment
\* enabled and usable tempo values
TempoProcess ==
    /\ call.fn = "process_segment_for_output"
    /\ call.res.ok
    /\ call.in.playback_tempo_enabled
    /\ call.in.source_bpm # None /\ call.in.source_bpm > 0
    /\ call.in.target_bpm # None

\* the pipeline output with the tempo stage switched off and every other
\* argument the same
WithoutTempo(in) ==
    process_segment_for_output(
        DataLeft(data_len), DataRight(data_len, in.is_stereo),
        [in EXCEPT !.playback_tempo_enabled = FALSE])

\* C20: with tempo adjustment enabled the pipeline returns the same samples,
\* in the same number, as without it, and reports the sample rate
\* round(sample_rate * target_bpm / source_bpm)
C20_TempoRate ==
    TempoProcess =>
        /\ call.res.seg = WithoutTempo(call.in).seg
        /\ call.res.rate = Round(call.in.sample_rate * call.in.target_bpm,
                                 call.in.source_bpm)

\* ---------------------------------------------------------------------
\* Tempo state, tail fade
\* ---------------------------------------------------------------------

\* C21: after any sequence of file loads, preset loads, cuts and measure
\* count changes the stored source_bpm is 60 * (measures * 4) / total_time
\* for the current buffer and the currently declared measure count
C21_SourceBpmCurrent == source_bpm = SourceBpm(num_measures, total_time)

\* the last call applied an enabled tail fade of duration D > 0 to a
\* constant-1.0 buffer at least as long as the fade
FadedOnes ==
    /\ call.fn = "apply_tail_fade"
    /\ call.in.enabled
    /\ call.in.duration_ms > 0
    /\ Len(call.in.segment) >= 1
    /\ call.in.segment = Ones(Len(call.in.segment), call.in.is_stereo)
    /\ Len(call.in.segment)
          >= Trunc(call.in.duration_ms * call.in.sample_rate, MsPerSecond)

\* C22: a fade of duration D > 0 over a constant-1.0 buffer at least as long
\* as the fade, linear or exponential, leaves the last sample exactly 0.0
\* and the sample at the start of the fade window exactly 1.0
C22_FadeEndpoints ==
    FadedOnes =>
        LET len == Len(call.in.segment)
            n == Trunc(call.in.duration_ms * call.in.sample_rate, MsPerSecond)
            zero == IF call.in.is_stereo THEN << 0, 0 >> ELSE 0
            one == IF call.in.is_stereo THEN << 1, 1 >> ELSE 1
        IN  /\ call.res[len] = zero
            /\ n >= 1 => call.res[len - n + 1] = one

\* ---------------------------------------------------------------------
\* Export
\* ---------------------------------------------------------------------

\* b0 = 0 < b1 < ... < bk = totalSamples, k >= 1
StrictlyBracketed(b, len) ==
    /\ Len(b) >= 2
    /\ b[1] = 0
    /\ b[Len(b)] = len
    /\ \A i \in 1..(Len(b) - 1) : b[i] < b[i + 1]

\* C23: for a strictly increasing boundary list from 0 to totalSamples
\* with k + 1 entries, export writes exactly k files, file i covering
\* [b(i-1), b(i)), and a sample map of k regions keyed 60 .. 60 + k - 1
C23_ExportWritesK ==
    (call.fn = "export_segments" /\ StrictlyBracketed(call.before, data_len)) =>
        LET k == Len(call.before) - 1
        IN  /\ Len(call.res.files) = k
            /\ \A i \in 1..Len(call.res.files) :
                  call.res.files[i] = [name |-> i, start |-> call.before[i],
                                       end |-> call.before[i + 1],
                                       key |-> BaseKey + (i - 1)]
            /\ call.res.sidecars

\* no marker has been set: the call passed none, or the controller's
\* markers are where RcyView.clear_markers leaves them
MarkersUnset(start_pos, end_pos) ==
    \/ start_pos = None /\ end_pos = None
    \/ start_pos = 0 /\ end_pos = total_time

\* the written files are contiguous and cover exactly [0, len)
CoversBuffer(files, len) ==
    /\ Len(files) >= 1
    /\ files[1].start = 0
    /\ files[Len(files)].end = len
    /\ \A i \in 1..(Len(files) - 1) : files[i].end = files[i + 1].start

\* C24: a non-empty boundary list is bracketed before processing (0 in
\* front, totalSamples at the end), and with no markers set the exported
\* ranges are contiguous and cover exactly [0, totalSamples)
C24_BracketCovers ==
    (/\ call.fn = "export_segments"
     /\ call.before # << >>
     /\ MarkersUnset(call.start_pos, call.end_pos)) =>
        /\ call.res.bracket[1] = 0
        /\ call.res.bracket[Len(call.res.bracket)] = data_len
        /\ CoversBuffer(call.res.files, data_len)

\* the last call exported an empty store with both markers given, at
\* samples 0 <= start < end <= totalSamples
MarkerExport ==
    /\ call.fn = "export_segments"
    /\ call.before = << >>
    /\ call.start_pos # None
    /\ call.end_pos # None
    /\ 0 <= get_sample_at_time(call.start_pos)
    /\ get_sample_at_time(call.start_pos) < get_sample_at_time(call.end_pos)
    /\ get_sample_at_time(call.end_pos) <= data_len

\* C25: with an empty boundary list and both markers given, export iterates
\* the two-element list [startMarker, endMarker] and writes exactly one
\* file, covering [startMarker, endMarker)
C25_MarkerExportOneFile ==
    MarkerExport =>
        /\ call.res.bracket = << get_sample_at_time(call.start_pos),
                                 get_sample_at_time(call.end_pos) >>
        /\ Len(call.res.files) = 1
        /\ call.res.files[1].start = get_sample_at_time(call.start_pos)
        /\ call.res.files[1].end = get_sample_at_time(call.end_pos)

\* positions of the consecutive pairs of b that are not of zero length
NonEmptyPairs(b) == {i \in 1..(Len(b) - 1) : b[i] # b[i + 1]}

\* positions of the zero-length pairs of b
EmptyPairs(b) == {i \in 1..(Len(b) - 1) : b[i] = b[i + 1]}

\* C26: zero-length pairs are skipped without error, and the N files
\* written for the other pairs are named segment_1 .. segment_N without
\* gaps, with keys 60 .. 60 + N - 1
C26_SkipsZeroLength ==
    (call.fn = "export_segments" /\ EmptyPairs(call.res.bracket) # {}) =>
        /\ call.res.raised = "none"
        /\ Len(call.res.files) = Cardinality(NonEmptyPairs(call.res.bracket))
        /\ \A i \in 1..Len(call.res.files) :
              /\ call.res.files[i].name = i
              /\ call.res.files[i].key = BaseKey + (i - 1)

\* C27: every file written by export has the sample rate of the source
\* buffer, with tempo adjustment on or off and for every source and target
\* BPM, and export processes its segments forward
C27_ExportKeepsRate ==
    (/\ call.fn = "export_call"
     /\ ValidSampleRange(data_len, call.in.start_sample, call.in.end_sample)) =>
        /\ call.res.ok
        /\ call.res.rate = call.in.sample_rate
        /\ ~call.in.reverse

\* the last export ended with an exception
FailedExport == call.fn = "export_segments" /\ call.res.raised # "none"

\* C28: export is fail-fast: when the processing or writing of segment k
\* fails no later segment is processed or written, neither sidecar file is
\* written, and the failure reaches the caller
C28_FailFast ==
    FailedExport =>
        LET k == call.res.tried[Len(call.res.tried)]
        IN  /\ \A i \in 1..Len(call.res.tried) : call.res.tried[i] <= k
            /\ \A i \in 1..Len(call.res.files) : call.res.files[i].name < k
            /\ ~call.res.sidecars

\* an export failed at a segment that has a non-empty segment after it
C28_Witness ==
    /\ FailedExport
    /\ \E i \in NonEmptyPairs(call.res.bracket) :
          i > call.res.tried[Len(call.res.tried)]
    /\ ~call.res.sidecars

\* ---------------------------------------------------------------------
\* Loading and cutting
\* ---------------------------------------------------------------------

\* playing the marked region, dragging the markers and the Cut button
NextCut ==
    \/ PlaySelectedRegion
    \/ StopPlayback
    \/ \E s \in Slots : ThreadStep(s)
    \/ DeviceComplete
    \/ \E x \in Times : SetStartMarker(x)
    \/ \E x \in Times : SetEndMarker(x)
    \/ CutAudio

SpecCut == InitPlay /\ [][NextCut]_vars

\* a playback is in flight: the model says so, or the device is outputting
PlaybackInFlight == is_playing \/ stream # 0

\* C29: a load that fails leaves the buffer state of the model (filename,
\* total time, data, boundaries, source BPM) exactly as it was before the
\* call, and the error reaches the caller
C29_FailedLoadKeepsState ==
    (call.fn = "set_filename" /\ call.raised) =>
        /\ filename = call.before.filename
        /\ total_len = call.before.total_len
        /\ data_len = call.before.data_len
        /\ segments = call.before.segments
        /\ source_bpm = call.before.source_bpm

\* C30: a cut never changes the buffer while a playback is in flight:
\* the cut is rejected, or the playback is stopped first
C30_NoCutWhilePlaying ==
    [][(CutAudio /\ PlaybackInFlight) =>
          \/ data_len' = data_len
          \/ ~PlaybackInFlight']_vars

\* ---------------------------------------------------------------------
\* Tail fade and reversal in the pipeline
\* ---------------------------------------------------------------------

\* the fade is switched on with a duration above zero
FadeActive(in) == in.enabled /\ in.duration_ms > 0

\* number of samples the fade covers: the duration in samples, clamped to
\* the length of the buffer
FadeWindow(in) ==
    Min(Trunc(in.duration_ms * in.sample_rate, MsPerSecond), Len(in.segment))

\* C33: the tail fade clamps its length to the buffer length, keeps the
\* length of the buffer, leaves the samples before the fade window
\* unchanged, applies one gain to both channels, does not modify its input
\* and returns the input unchanged when disabled or when duration <= 0
C33_FadeShape ==
    call.fn = "apply_tail_fade" =>
        /\ Len(call.res) = Len(call.in.segment)
        /\ call.after = call.in.segment
        /\ ~FadeActive(call.in) => call.res = call.in.segment
        /\ FadeActive(call.in) =>
              /\ (/\ Len(call.in.segment) >= 1
                  /\ Trunc(call.in.duration_ms * call.in.sample_rate, MsPerSecond)
                        >= Len(call.in.segment)) =>
                    call.res[1] = call.in.segment[1]
              /\ \A i \in 1..(Len(call.in.segment) - FadeWindow(call.in)) :
                    call.res[i] = call.in.segment[i]
              /\ (/\ call.in.is_stereo
                  /\ call.in.segment = Ones(Len(call.in.segment), TRUE)) =>
                    \A i \in 1..Len(call.res) : call.res[i][1] = call.res[i][2]

\* a stereo buffer shorter than the fade was faded over its whole length,
\* and a longer one kept its head
C33_Witness ==
    /\ call.fn = "apply_tail_fade"
    /\ FadeActive(call.in)
    /\ call.in.is_stereo
    /\ Len(call.in.segment) = 3
    /\ Trunc(call.in.duration_ms * call.in.sample_rate, MsPerSecond) > 3
    /\ call.res[3] = << 0, 0 >>
    /\ call.res[1] = call.in.segment[1]

\* the last call ran the pipeline on a valid range with reverse and an
\* active tail fade
ReversedFaded ==
    /\ call.fn = "process_segment_for_output"
    /\ call.res.ok
    /\ call.in.reverse
    /\ call.in.tail_fade_enabled
    /\ call.in.fade_duration_ms > 0

\* samples the fade covers in a pipeline call
PipeFadeWindow(in) ==
    Min(Trunc(in.fade_duration_ms * in.sample_rate, MsPerSecond),
        in.end_sample - in.start_sample)

\* the reversed source range around the fade: the output has end - start
\* samples and, before the fade window, output sample i is source sample
\* end + 1 - i, left in the left channel and right in the right one
ReversedHead ==
    LET n == call.in.end_sample - call.in.start_sample
        left == DataLeft(data_len)
        right == DataRight(data_len, call.in.is_stereo)
    IN  /\ Len(call.res.seg) = n
        /\ \A i \in 1..(n - PipeFadeWindow(call.in)) :
              call.res.seg[i] =
                  IF call.in.is_stereo
                  THEN << left[call.in.end_sample + 1 - i],
                          right[call.in.end_sample + 1 - i] >>
                  ELSE left[call.in.end_sample + 1 - i]

\* C32: with reverse and fade both enabled the fade attenuates the end of
\* the reversed buffer: the output keeps end - start samples, each channel
\* is time-reversed on its own, and the last output sample is 0 in every
\* channel
C32_ReverseThenFade ==
    ReversedFaded =>
        /\ ReversedHead
        /\ call.res.seg[Len(call.res.seg)] =
              IF call.in.is_stereo THEN << 0, 0 >> ELSE 0

\* C35: for a positive source_bpm, get_adjusted_sample_rate() and the rate
\* the playback pipeline reports for the same settings are equal: with
\* tempo enabled both are int(sample_rate * target_bpm / source_bpm),
\* truncated, and with tempo disabled both are sample_rate
C35_AdjustedRatesAgree ==
    (call.fn = "get_adjusted_sample_rate" /\ call.source_bpm > 0) =>
        /\ call.res = call.pipeline
        /\ call.res = IF call.enabled
                      THEN Trunc(call.sample_rate * call.target_bpm,
                                 call.source_bpm)
                      ELSE call.sample_rate

\* tempo enabled and a quotient of 3/2, which truncation and rounding take
\* to different rates
C35_Witness ==
    /\ call.fn = "get_adjusted_sample_rate"
    /\ call.enabled
    /\ call.sample_rate = 1
    /\ call.target_bpm = 3
    /\ call.source_bpm = 2
    /\ call.res = 1
    /\ call.pipeline = 1

\* ---------------------------------------------------------------------
\* Playback session: failed attempts, workers and completion signals
\* ---------------------------------------------------------------------

\* C31: a play attempt that fails while the segment is prepared (invalid or
\* empty sample range) starts no worker, returns "not started", leaves
\* is_playing false and the device as it was, and the handler returns
C31_FailedPlayStartsNothing ==
    [][(UserPlayStep /\ lastMain'.res = "failed")
       => (/\ lastMain' = MainOp("play", "failed", 0)
           /\ ~NewWorker
           /\ threads' = threads
           /\ stream' = stream
           /\ ~is_playing')]_vars

\* a play request has failed with no worker alive
C31_Witness ==
    /\ lastMain = MainOp("play", "failed", 0)
    /\ threads = << >>
    /\ ~is_playing
    /\ stream = 0

\* ---------------------------------------------------------------------
\* The controller's lookup against the store's
\* ---------------------------------------------------------------------

\* the click is at or before the first slice the controller holds
AtOrBeforeFirst(slices, click_time) == slices # << >> /\ click_time <= slices[1]

\* the looked-up position is a position of the buffer, or the controller
\* holds the slice times of the very list the store holds
ComparableLookup ==
    /\ query.pos # None
    /\ query.pos < total_time \/ current_slices = SliceTimes(segments)

C36_ExportLeavesStore ==
    call.fn = "export_segments" => segments = call.before

\* the last export ran on boundaries strictly inside the buffer with the
\* controller's markers where RcyView.update_slices / clear_markers put them
DefaultMarkerExport ==
    /\ call.fn = "export_segments"
    /\ call.before # << >>
    /\ StrictInterior(call.before, data_len)
    /\ call.start_pos = 0
    /\ call.end_pos = total_time

\* C39: with k boundaries strictly inside (0, totalSamples) and the markers
\* at their default positions, export iterates 0, b1, ..., bk, totalSamples
\* and writes k + 1 files whose ranges partition [0, totalSamples)
C39_DefaultMarkersPartition ==
    DefaultMarkerExport =>
        /\ call.res.bracket = << 0 >> \o call.before \o << data_len >>
        /\ Len(call.res.files) = Len(call.before) + 1
        /\ CoversBuffer(call.res.files, data_len)

\* a playback started after the one of thread s is in flight: its thread has
\* not reached sd.wait yet, or the device is outputting its buffer
LaterInFlight(s) == \E r \in DOMAIN threads : r > s /\ PlaybackPending(r)

\* thread s runs a statement of the finally block of play_audio
FinallyStep(s) == ThreadFinally(s) \/ ThreadExit(s)

\* C37: while a playback worker is outputting audio is_playing is true, and
\* the finally block of the worker of an earlier playback neither resets
\* is_playing nor sets playback_just_ended while a later playback is in flight
C37_OutputImpliesPlaying ==
    /\ [](stream # 0 => is_playing)
    /\ [][\A s \in DOMAIN threads :
            (FinallyStep(s) /\ LaterInFlight(s))
                => /\ is_playing' = is_playing
                   /\ playback_just_ended' = playback_just_ended]_vars

\* ---------------------------------------------------------------------
\* The completion flag and the poll
\* ---------------------------------------------------------------------

\* The session of a user who asks for a playback only when no playback
\* thread is alive: every playback_just_ended flag found set while a
\* playback the user started is pending was raised by a playback that had
\* ended before that one was started
NextPoll ==
    \/ threads = << >> /\ \E t \in Times : PlaySegment(t)
    \/ threads = << >> /\ PlaySelectedRegion
    \/ threads = << >> /\ TogglePlayback
    \/ StopPlayback
    \/ \E m \in Modes : SetPlaybackMode(m)
    \/ CheckPlaybackStatus
    \/ \E s \in Slots : ThreadStep(s)
    \/ DeviceComplete

SpecPoll == InitPlay /\ [][NextPoll]_vars

\* the last step of the GUI thread was a user play request that started a
\* playback, and that playback has neither completed nor been stopped
UserPlaybackPending ==
    /\ lastMain.op = "play"
    /\ lastMain.res = "started"
    /\ PlaybackPending(lastMain.slot)

\* check_playback_status reaches view.clear_active_segment_highlight():
\* the mode does not loop, or handle_loop_playback returned False
PollClearsHighlight == ~LoopReplays

\* C38: the poll that handles the completion flag of one playback does not
\* stop or duplicate a playback the user started after that completion,
\* and does not clear its active-segment highlight
C38_PollLeavesLaterPlayback ==
    [][(CheckPlaybackStatus /\ UserPlaybackPending)
       => (/\ ~NewWorker
           /\ threads' = threads
           /\ stream' = stream
           /\ is_playing' = is_playing
           /\ ~PollClearsHighlight)]_vars

\* ---------------------------------------------------------------------
\* The range a loop replays
\* ---------------------------------------------------------------------

\* the poll replays after the natural completion of a playback the user
\* started, with no user input in between
ReplayAfterCompletion ==
    /\ session = "completed"
    /\ playback_mode \in LoopModes
    /\ CheckPlaybackStatus
    /\ NewWorker

\* C40: in loop and loop-reverse mode the range replayed on natural
\* completion is the range of the playback that just completed, whether it
\* was started by a segment click, by playing the selected region or by the
\* space-bar toggle between the markers
C40_ReplaysCompletedRange ==
    [][ReplayAfterCompletion
       => (/\ played # NoPlay
           /\ played'[1] = played[1]
           /\ played'[2] = played[2])]_vars

====
